---- MODULE Spec2Model ----
(***************************************************************************)
(* Grade-to-score pipeline of the Pronote grade analyzer                   *)
(* (src/moyennisator3000.py, with the grade codecs of src/app.py and       *)
(* src/pronote_analyzer.py).                                               *)
(*                                                                         *)
(* Representation.                                                         *)
(*  - A Python float is held in hundredths, as an integer: 12.4 is 1240.   *)
(*    round(x, 2) is RoundDiv on the exact quotient, ties to even.         *)
(*  - A Python str that the code splits and strips (pillar_prefix) is a    *)
(*    sequence of atoms: "," is the comma, " " a blank, any other atom a   *)
(*    run of characters holding neither.  The empty str is <<>>.           *)
(*  - Other strs (grade codes, subject names) are TLA+ strings.            *)
(*  - A dict is a function; a missing key is a value outside its DOMAIN.   *)
(*  - gettext returns its message id.                                      *)
(*  - An object is a record of its attributes.  An attribute whose values  *)
(*    are of several types (a date, a subject) is a record tagged by kind, *)
(*    None being one kind.  An attribute held as a plain sequence          *)
(*    (acquisitions) is not a field when it holds None: the object lists   *)
(*    it in its field nulls.                                               *)
(***************************************************************************)
EXTENDS Integers, Sequences, FiniteSets, TLC

VARIABLES
    pc,                     \* position of the request being served
    evaluations_raw,        \* connect_and_fetch: evaluations read so far
    evaluations_processed,  \* connect_and_fetch: normalized evaluations
    returned,               \* what connect_and_fetch returned to that request
    STORE,                  \* per-session result store
    fn,                     \* pure-function call: name of the function
    arg,                    \* pure-function call: its argument
    ret,                    \* pure-function call: its result
    fixed_url,              \* analyzer.fixed_url, of the one analyzer of the module
    requests                \* the login requests served side by side: their locals

vars == <<pc, evaluations_raw, evaluations_processed, returned, STORE, fn, arg, ret,
          fixed_url, requests>>

\* ---------------------------------------------------------------- bounds

MaxEvals == 2        \* evaluations a client yields
MaxAcqTotal == 2     \* acquisitions over all the evaluations of a client
MaxAcqOne == 3       \* acquisitions of the evaluation of a one-evaluation client
MaxTotal400 == 420   \* totals handed to get_performance_level

\* --------------------------------------------------------------- helpers

None == [kind |-> "None"]

EmptyDict == [k \in {} |-> 0]

\* whether attribute name of object obj holds None
holds_none(obj, name) == "nulls" \in DOMAIN obj /\ name \in obj.nulls

DictSet(d, k, v) == [x \in (DOMAIN d) \cup {k} |-> IF x = k THEN v ELSE d[x]]

RECURSIVE sum(_)
sum(s) == IF s = <<>> THEN 0 ELSE Head(s) + sum(Tail(s))

\* n / d rounded to the nearest integer, ties to the even one (n >= 0, d > 0)
RoundDiv(n, d) ==
    LET q == n \div d
        r == n % d
    IN  IF 2 * r < d THEN q
        ELSE IF 2 * r > d THEN q + 1
        ELSE IF q % 2 = 0 THEN q ELSE q + 1

\* ----------------------------------------------------------- grade codec

palier_mapping == ("A+" :> 50) @@ ("A" :> 40) @@ ("C" :> 25) @@ ("E" :> 10)

display_mapping == ("A+" :> "V+") @@ ("A" :> "V") @@ ("C" :> "J") @@ ("E" :> "R")

\* grade_abbreviation_to_palier with the values of "A" and "C" exchanged
grade_abbreviation_to_palier_swapped(abbrev) ==
    IF abbrev = "A" THEN 25
    ELSE IF abbrev = "C" THEN 40
    ELSE IF abbrev \in DOMAIN palier_mapping THEN palier_mapping[abbrev] ELSE 0

\* grade_abbreviation_to_palier looking the code up in upper case
grade_abbreviation_to_palier_upper(abbrev) ==
    LET upper == IF abbrev = "a" THEN "A"
                 ELSE IF abbrev = "c" THEN "C"
                 ELSE IF abbrev = "e" THEN "E" ELSE abbrev
    IN  IF upper \in DOMAIN palier_mapping THEN palier_mapping[upper] ELSE 0

\* lines 209-212
grade_abbreviation_to_palier(abbrev) ==
    IF abbrev \in DOMAIN palier_mapping THEN palier_mapping[abbrev] ELSE 0

convert_grade_for_display(grade) ==
    IF grade \in DOMAIN display_mapping THEN display_mapping[grade] ELSE grade

\* grade_to_points of the two earlier variants of the analyzer
app_mapping == ("A+" :> 50) @@ ("A" :> 40) @@ ("C" :> 25) @@ ("E" :> 10)

app_grade_to_points(grade) ==
    IF grade \in DOMAIN app_mapping THEN app_mapping[grade] ELSE 0

cli_mapping == ("A+" :> 50) @@ ("A" :> 40) @@ ("C" :> 25) @@ ("E" :> 10)

cli_grade_to_points(grade) ==
    IF grade \in DOMAIN cli_mapping THEN cli_mapping[grade] ELSE 0

\* ------------------------------------------------- str.split / str.strip

RECURSIVE split_from(_, _, _)
split_from(s, i, cur) ==
    IF i > Len(s) THEN <<cur>>
    ELSE IF s[i] = "," THEN <<cur>> \o split_from(s, i + 1, <<>>)
    ELSE split_from(s, i + 1, Append(cur, s[i]))

\* s.split(',')
split(s) == split_from(s, 1, <<>>)

RECURSIVE lstrip(_)
lstrip(s) == IF s # <<>> /\ Head(s) = " " THEN lstrip(Tail(s)) ELSE s

RECURSIVE rstrip(_)
rstrip(s) ==
    IF s # <<>> /\ s[Len(s)] = " " THEN rstrip(SubSeq(s, 1, Len(s) - 1)) ELSE s

\* s.strip()
strip(s) == rstrip(lstrip(s))

\* [s.strip() for s in pillar.split(',')]
subdomains(pillar) ==
    LET pieces == split(pillar)
    IN  [i \in 1..Len(pieces) |-> strip(pieces[i])]

\* ------------------------------------------------------------- dates

\* date.min, as a datetime.date
date_min == [kind |-> "date", day |-> 1]

\* Texts that datetime.fromisoformat accepts, with the day they denote
iso_texts == ("2024-01-05" :> 5) @@ ("2024-01-09T08:30:00" :> 9)

\* str(raw_date): the text of a str is itself, str(None) is "None"
str_of(raw_date) == IF raw_date.kind = "None" THEN "None" ELSE raw_date.text

\* bool(raw_date): None and the empty str are false
truthy(raw_date) ==
    ~(raw_date.kind = "None" \/ (raw_date.kind = "str" /\ raw_date.text = ""))

\* lines 318-329: the date_obj kept for sorting
normalize_date(raw_date) ==
    IF raw_date.kind \in {"date", "datetime"}
    THEN raw_date                      \* isinstance(raw_date, date): a datetime is a date
    ELSE IF str_of(raw_date) \in DOMAIN iso_texts
         THEN [kind |-> "date", day |-> iso_texts[str_of(raw_date)]]
         ELSE None

\* line 332: dd/mm/YYYY of the date object, else str(raw_date or "Unknown")
display_date(raw_date) ==
    IF normalize_date(raw_date).kind # "None"
    THEN [fmt |-> "%d/%m/%Y", day |-> normalize_date(raw_date).day]
    ELSE [fmt |-> "str",
          text |-> IF truthy(raw_date) THEN str_of(raw_date) ELSE "Unknown"]

\* ------------------------------------------------- evaluation normalizer

\* getattr(subject_obj, "name", "Unknown") if subject_obj else "Unknown"
subject_name_of(evaluation) ==
    IF evaluation.subject.kind = "None" THEN "Unknown" ELSE evaluation.subject.name

\* collect_grades passing over the codes that the mapping does not know
RECURSIVE collect_grades_known_only(_, _, _)
collect_grades_known_only(acquisitions, i, acc) ==
    IF i > Len(acquisitions) THEN acc
    ELSE LET raw == acquisitions[i].abbreviation
         IN  IF raw \in DOMAIN palier_mapping
             THEN collect_grades_known_only(acquisitions, i + 1,
                      [grades |-> Append(acc.grades, convert_grade_for_display(raw)),
                       points |-> Append(acc.points, grade_abbreviation_to_palier(raw))])
             ELSE collect_grades_known_only(acquisitions, i + 1, acc)

\* lines 307-311: the loop over the acquisitions, from position i on
RECURSIVE collect_grades(_, _, _)
collect_grades(acquisitions, i, acc) ==
    IF i > Len(acquisitions) THEN acc
    ELSE LET raw == acquisitions[i].abbreviation
         IN  IF raw # ""
             THEN collect_grades(acquisitions, i + 1,
                      [grades |-> Append(acc.grades, convert_grade_for_display(raw)),
                       points |-> Append(acc.points, grade_abbreviation_to_palier(raw))])
             ELSE collect_grades(acquisitions, i + 1, acc)

\* sum(points) / len(points) if points else 0, then round(avg_points, 2)
average_points_of(points) ==
    IF Len(points) > 0 THEN RoundDiv(100 * sum(points), Len(points)) ELSE 0

\* coefficient_of with the default of line 352 (0) in the place of 1
coefficient_of_zero(evaluation) ==
    IF "coefficient" \in DOMAIN evaluation THEN evaluation.coefficient ELSE 0

\* line 339: getattr(evaluation, "coefficient", 1)
coefficient_of(evaluation) ==
    IF "coefficient" \in DOMAIN evaluation THEN evaluation.coefficient ELSE 1

\* process_evaluation dividing by len(points) unguarded: ZeroDivisionError is
\* caught by the except branch, which returns None
process_evaluation_unguarded(evaluation) ==
    LET got == collect_grades(evaluation.acquisitions, 1,
                              [grades |-> <<>>, points |-> <<>>])
    IN  IF Len(got.points) = 0 THEN None
        ELSE [subject        |-> subject_name_of(evaluation),
              date           |-> display_date(evaluation.date),
              date_obj       |-> normalize_date(evaluation.date),
              name           |-> evaluation.name,
              coefficient    |-> coefficient_of(evaluation),
              grades         |-> got.grades,
              average_points |-> RoundDiv(100 * sum(got.points), Len(got.points))]

\* process_evaluation giving the evaluation up (None) when its date is not parsed
process_evaluation_strict_date(evaluation) ==
    IF holds_none(evaluation, "acquisitions") THEN None
    ELSE IF normalize_date(evaluation.date).kind = "None" THEN None
    ELSE LET got == collect_grades(evaluation.acquisitions, 1,
                                   [grades |-> <<>>, points |-> <<>>])
         IN  [subject        |-> subject_name_of(evaluation),
              date           |-> display_date(evaluation.date),
              date_obj       |-> normalize_date(evaluation.date),
              name           |-> evaluation.name,
              coefficient    |-> coefficient_of(evaluation),
              grades         |-> got.grades,
              average_points |-> average_points_of(got.points)]

\* lines 301-345; iterating acquisitions that hold None raises TypeError
\* (line 307), and the except branch returns None
process_evaluation(evaluation) ==
    IF holds_none(evaluation, "acquisitions") THEN None
    ELSE LET got == collect_grades(evaluation.acquisitions, 1,
                                   [grades |-> <<>>, points |-> <<>>])
         IN  [subject        |-> subject_name_of(evaluation),
              date           |-> display_date(evaluation.date),
              date_obj       |-> normalize_date(evaluation.date),
              name           |-> evaluation.name,
              coefficient    |-> coefficient_of(evaluation),
              grades         |-> got.grades,
              average_points |-> average_points_of(got.points)]

\* ----------------------------------------------------- subject averages

\* lines 351-356: the loop over the evaluations, from position i on
\* (float(x or 0) of a number x is x)
RECURSIVE subject_totals(_, _, _)
subject_totals(evaluations, i, totals) ==
    IF i > Len(evaluations) THEN totals
    ELSE LET ev      == evaluations[i]
             coeff   == ev.coefficient
             avg     == ev.average_points
             subject == ev.subject
             old     == IF subject \in DOMAIN totals THEN totals[subject]
                        ELSE [points |-> 0, coeffs |-> 0]
         IN  subject_totals(evaluations, i + 1,
                 DictSet(totals, subject,
                         [points |-> old.points + avg * coeff,
                          coeffs |-> old.coeffs + coeff]))

\* avg_20_of with the factor 0.4 applied a second time
avg_20_of_twice(v) ==
    IF v.coeffs > 0 THEN RoundDiv(v.points * 16, v.coeffs * 100) ELSE 0

\* lines 361-362: avg_50 = points / coeffs, avg_20 = round(avg_50 * 0.4, 2)
avg_20_of(v) ==
    IF v.coeffs > 0 THEN RoundDiv(v.points * 4, v.coeffs * 10) ELSE 0

calculate_subject_averages(evaluations) ==
    IF evaluations = <<>> THEN EmptyDict
    ELSE LET totals == subject_totals(evaluations, 1, EmptyDict)
         IN  [subject \in DOMAIN totals |-> avg_20_of(totals[subject])]

\* ---------------------------------------------------- domain aggregator

\* append_points with the points shared out among the subdomains
RECURSIVE append_points_shared(_, _, _, _)
append_points_shared(domain_palier_points, subs, i, palier_points) ==
    IF i > Len(subs) THEN domain_palier_points
    ELSE LET old == IF subs[i] \in DOMAIN domain_palier_points
                    THEN domain_palier_points[subs[i]] ELSE <<>>
         IN  append_points_shared(
                 DictSet(domain_palier_points, subs[i],
                         Append(old, palier_points \div Len(subs))),
                 subs, i + 1, palier_points)

\* lines 266-267: append the points under every subdomain, from position i on
RECURSIVE append_points(_, _, _, _)
append_points(domain_palier_points, subs, i, palier_points) ==
    IF i > Len(subs) THEN domain_palier_points
    ELSE LET old == IF subs[i] \in DOMAIN domain_palier_points
                    THEN domain_palier_points[subs[i]] ELSE <<>>
         IN  append_points(
                 DictSet(domain_palier_points, subs[i], Append(old, palier_points)),
                 subs, i + 1, palier_points)

\* collect_acquisitions passing over the acquisitions that have no grade code
RECURSIVE collect_acquisitions_graded_only(_, _, _)
collect_acquisitions_graded_only(domain_palier_points, acquisitions, i) ==
    IF i > Len(acquisitions) THEN domain_palier_points
    ELSE LET pillar == acquisitions[i].pillar_prefix
             abbrev == acquisitions[i].abbreviation
         IN  IF pillar # <<>> /\ abbrev # ""
             THEN collect_acquisitions_graded_only(
                      append_points(domain_palier_points, subdomains(pillar), 1,
                                    grade_abbreviation_to_palier(abbrev)),
                      acquisitions, i + 1)
             ELSE collect_acquisitions_graded_only(domain_palier_points,
                                                   acquisitions, i + 1)

\* lines 260-267: the loop over the acquisitions of one evaluation
RECURSIVE collect_acquisitions(_, _, _)
collect_acquisitions(domain_palier_points, acquisitions, i) ==
    IF i > Len(acquisitions) THEN domain_palier_points
    ELSE LET pillar == acquisitions[i].pillar_prefix
             abbrev == acquisitions[i].abbreviation
         IN  IF pillar # <<>>
             THEN collect_acquisitions(
                      append_points(domain_palier_points, subdomains(pillar), 1,
                                    grade_abbreviation_to_palier(abbrev)),
                      acquisitions, i + 1)
             ELSE collect_acquisitions(domain_palier_points, acquisitions, i + 1)

\* lines 259-267: the loop over the evaluations
RECURSIVE collect_palier_points(_, _, _)
collect_palier_points(domain_palier_points, evaluations, i) ==
    IF i > Len(evaluations) THEN domain_palier_points
    ELSE collect_palier_points(
             collect_acquisitions(domain_palier_points, evaluations[i].acquisitions, 1),
             evaluations, i + 1)

\* snap with every mean taken up to the tier above it
snap_rounding_up(total, n) ==
    IF total >= 40 * n THEN [snapped_points |-> 50, palier_display |-> "V+"]
    ELSE IF total >= 25 * n THEN [snapped_points |-> 40, palier_display |-> "V"]
    ELSE IF total >= 10 * n THEN [snapped_points |-> 25, palier_display |-> "J"]
    ELSE [snapped_points |-> 10, palier_display |-> "R"]

\* snap with the midpoints left to the lower tier (> for >=)
snap_strict(total, n) ==
    IF total > 45 * n THEN [snapped_points |-> 50, palier_display |-> "V+"]
    ELSE IF 2 * total > 65 * n THEN [snapped_points |-> 40, palier_display |-> "V"]
    ELSE IF 2 * total > 35 * n THEN [snapped_points |-> 25, palier_display |-> "J"]
    ELSE [snapped_points |-> 10, palier_display |-> "R"]

\* lines 276-287: the snapping of avg_points = total / n
snap(total, n) ==
    IF total >= 45 * n THEN [snapped_points |-> 50, palier_display |-> "V+"]
    ELSE IF 2 * total >= 65 * n THEN [snapped_points |-> 40, palier_display |-> "V"]
    ELSE IF 2 * total >= 35 * n THEN [snapped_points |-> 25, palier_display |-> "J"]
    ELSE [snapped_points |-> 10, palier_display |-> "R"]

\* lines 272-297: the entry of one domain
domain_score(points_list) ==
    LET s == snap(sum(points_list), Len(points_list))
    IN  [count         |-> Len(points_list),
         avg_points_50 |-> 100 * s.snapped_points,
         avg_points_20 |-> RoundDiv(s.snapped_points * 40, 1),
         palier        |-> s.palier_display,
         raw_avg       |-> RoundDiv(100 * sum(points_list), Len(points_list))]

\* compute_domain_scores keeping the eight official domains only
compute_domain_scores_official_only(evaluations) ==
    LET domain_palier_points == collect_palier_points(EmptyDict, evaluations, 1)
        official == {<<"D1.1">>, <<"D1.2">>, <<"D1.3">>, <<"D1.4">>,
                     <<"D2">>, <<"D3">>, <<"D4">>, <<"D5">>}
    IN  [domain \in (DOMAIN domain_palier_points) \cap official |->
            domain_score(domain_palier_points[domain])]

\* lines 250-299
compute_domain_scores(evaluations) ==
    LET domain_palier_points == collect_palier_points(EmptyDict, evaluations, 1)
    IN  [domain \in DOMAIN domain_palier_points |->
            domain_score(domain_palier_points[domain])]

\* -------------------------------------------------- side-channel tracker

\* lines 236-237: count one more under every subdomain, from position i on
RECURSIVE bump_counts(_, _, _)
bump_counts(domain_counts, subs, i) ==
    IF i > Len(subs) THEN domain_counts
    ELSE LET old == IF subs[i] \in DOMAIN domain_counts
                    THEN domain_counts[subs[i]] ELSE 0
         IN  bump_counts(DictSet(domain_counts, subs[i], old + 1), subs, i + 1)

\* count_acquisitions tracking the untagged acquisitions of every subject
RECURSIVE count_acquisitions_any_subject(_, _, _, _)
count_acquisitions_any_subject(acc, evaluation, eval_subject, i) ==
    IF i > Len(evaluation.acquisitions) THEN acc
    ELSE LET acq    == evaluation.acquisitions[i]
             pillar == acq.pillar_prefix
             abbrev == acq.abbreviation
         IN  IF pillar # <<>>
             THEN count_acquisitions_any_subject(
                      [acc EXCEPT !.domain_counts =
                               bump_counts(@, subdomains(pillar), 1)],
                      evaluation, eval_subject, i + 1)
             ELSE count_acquisitions_any_subject(
                      [acc EXCEPT !.dnl_hg_acquisitions = Append(@,
                          [evaluation_name |-> evaluation.name,
                           subject         |-> eval_subject,
                           abbreviation    |-> abbrev,
                           palier_points   |-> grade_abbreviation_to_palier(abbrev)])],
                      evaluation, eval_subject, i + 1)

\* lines 230-246: the loop over the acquisitions of one evaluation
RECURSIVE count_acquisitions(_, _, _, _)
count_acquisitions(acc, evaluation, eval_subject, i) ==
    IF i > Len(evaluation.acquisitions) THEN acc
    ELSE LET acq    == evaluation.acquisitions[i]
             pillar == acq.pillar_prefix
             abbrev == acq.abbreviation
         IN  IF pillar # <<>>
             THEN count_acquisitions(
                      [acc EXCEPT !.domain_counts =
                               bump_counts(@, subdomains(pillar), 1)],
                      evaluation, eval_subject, i + 1)
             ELSE IF eval_subject = "DNL HG"
             THEN count_acquisitions(
                      [acc EXCEPT !.dnl_hg_acquisitions = Append(@,
                          [evaluation_name |-> evaluation.name,
                           subject         |-> eval_subject,
                           abbreviation    |-> abbrev,
                           palier_points   |-> grade_abbreviation_to_palier(abbrev)])],
                      evaluation, eval_subject, i + 1)
             ELSE count_acquisitions(acc, evaluation, eval_subject, i + 1)

\* lines 227-246: the loop over the evaluations
RECURSIVE count_evaluations(_, _, _)
count_evaluations(acc, evaluations, i) ==
    IF i > Len(evaluations) THEN acc
    ELSE count_evaluations(
             count_acquisitions(acc, evaluations[i],
                                subject_name_of(evaluations[i]), 1),
             evaluations, i + 1)

count_domains_and_acquisitions(evaluations) ==
    count_evaluations([domain_counts |-> EmptyDict, dnl_hg_acquisitions |-> <<>>],
                      evaluations, 1)

\* ----------------------------------------------------- score synthesizer

\* dnl_snap with the midpoints left to the lower tier (> for >=)
dnl_snap_strict(total, n) ==
    IF total > 45 * n THEN [snapped |-> 50, pal |-> "V+"]
    ELSE IF 2 * total > 65 * n THEN [snapped |-> 40, pal |-> "V"]
    ELSE IF 2 * total > 35 * n THEN [snapped |-> 25, pal |-> "J"]
    ELSE [snapped |-> 10, pal |-> "R"]

\* lines 391-402: the snapping of raw_avg = total / n, as written a second time
dnl_snap(total, n) ==
    IF total >= 45 * n THEN [snapped |-> 50, pal |-> "V+"]
    ELSE IF 2 * total >= 65 * n THEN [snapped |-> 40, pal |-> "V"]
    ELSE IF 2 * total >= 35 * n THEN [snapped |-> 25, pal |-> "J"]
    ELSE [snapped |-> 10, pal |-> "R"]

\* lines 386-410
dnl_hg_score_of(dnl_hg_acquisitions) ==
    IF dnl_hg_acquisitions = <<>> THEN None
    ELSE LET pts == [i \in 1..Len(dnl_hg_acquisitions) |->
                        dnl_hg_acquisitions[i].palier_points]
             s   == dnl_snap(sum(pts), Len(pts))
         IN  [kind          |-> "dict",
              count         |-> Len(pts),
              avg_points_50 |-> 100 * s.snapped,
              avg_points_20 |-> RoundDiv(s.snapped * 40, 1),
              palier        |-> s.pal,
              raw_avg       |-> RoundDiv(100 * sum(pts), Len(pts))]

\* line 413: the keys that count towards the total
official_domains_of(domain_scores) ==
    {d \in DOMAIN domain_scores : d # <<"EMPTY">>}

\* line 416: sum(domain_scores[d]["avg_points_50"] for d in official_domains)
RECURSIVE sum_avg_points_50(_, _)
sum_avg_points_50(domain_scores, domains) ==
    IF domains = {} THEN 0
    ELSE LET d == CHOOSE x \in domains : TRUE
         IN  domain_scores[d].avg_points_50
             + sum_avg_points_50(domain_scores, domains \ {d})

\* compute_brevet_stats with the eight domains zero-filled where there is no data
compute_brevet_stats_zero_filled(evaluations) ==
    LET found  == compute_domain_scores(evaluations)
        filled == [d \in {<<"D1.1">>, <<"D1.2">>, <<"D1.3">>, <<"D1.4">>,
                          <<"D2">>, <<"D3">>, <<"D4">>, <<"D5">>} |->
                      [count |-> 0, avg_points_50 |-> 0, avg_points_20 |-> 0,
                       palier |-> "R", raw_avg |-> 0]]
        domain_scores == [d \in DOMAIN filled \cup DOMAIN found |->
                             IF d \in DOMAIN found THEN found[d] ELSE filled[d]]
        official_domains == official_domains_of(domain_scores)
        total_400 == sum_avg_points_50(domain_scores, official_domains)
        counted == count_domains_and_acquisitions(evaluations)
    IN  [domain_scores       |-> domain_scores,
         total_50            |-> RoundDiv(total_400, 8),
         total_400           |-> total_400,
         dnl_hg_acquisitions |-> counted.dnl_hg_acquisitions,
         dnl_hg_score        |-> dnl_hg_score_of(counted.dnl_hg_acquisitions)]

\* compute_brevet_stats with the snapped DNL HG score added into the total
compute_brevet_stats_with_dnl(evaluations) ==
    IF evaluations = <<>>
    THEN [domain_scores       |-> EmptyDict,
          total_50            |-> 0,
          total_400           |-> 0,
          dnl_hg_acquisitions |-> <<>>]
    ELSE LET domain_scores    == compute_domain_scores(evaluations)
             counted          == count_domains_and_acquisitions(evaluations)
             dnl_hg_score     == dnl_hg_score_of(counted.dnl_hg_acquisitions)
             official_domains == official_domains_of(domain_scores)
             total_400        == sum_avg_points_50(domain_scores, official_domains)
                                 + (IF dnl_hg_score.kind = "None" THEN 0
                                    ELSE dnl_hg_score.avg_points_50)
         IN  [domain_scores       |-> domain_scores,
              total_50            |-> RoundDiv(total_400, 8),
              total_400           |-> total_400,
              dnl_hg_acquisitions |-> counted.dnl_hg_acquisitions,
              dnl_hg_score        |-> dnl_hg_score]

\* lines 366-426
compute_brevet_stats(evaluations) ==
    IF evaluations = <<>>
    THEN [domain_scores       |-> EmptyDict,
          total_50            |-> 0,
          total_400           |-> 0,
          dnl_hg_acquisitions |-> <<>>]
    ELSE LET domain_scores      == compute_domain_scores(evaluations)
             counted            == count_domains_and_acquisitions(evaluations)
             official_domains   == official_domains_of(domain_scores)
             total_400          == IF official_domains # {}
                                   THEN sum_avg_points_50(domain_scores, official_domains)
                                   ELSE 0
         IN  [domain_scores       |-> domain_scores,
              total_50            |-> IF official_domains # {}
                                      THEN RoundDiv(total_400, 8) ELSE 0,
              total_400           |-> total_400,
              dnl_hg_acquisitions |-> counted.dnl_hg_acquisitions,
              dnl_hg_score        |-> dnl_hg_score_of(counted.dnl_hg_acquisitions)]

\* get_performance_level with the boundaries left to the lower tier (> for >=)
get_performance_level_strict(total_400) ==
    IF total_400 > 36000 THEN "Outstanding (Mention Tres Bien avec Felicitations)"
    ELSE IF total_400 > 32000 THEN "Excellent (Mention Tres Bien possible)"
    ELSE IF total_400 > 28000 THEN "Good (Mention Bien possible)"
    ELSE IF total_400 > 24000 THEN "Satisfactory (Mention Assez Bien possible)"
    ELSE IF total_400 > 20000 THEN "Pass level"
    ELSE "Below pass level"

\* lines 428-441
get_performance_level(total_400) ==
    IF total_400 >= 36000 THEN "Outstanding (Mention Tres Bien avec Felicitations)"
    ELSE IF total_400 >= 32000 THEN "Excellent (Mention Tres Bien possible)"
    ELSE IF total_400 >= 28000 THEN "Good (Mention Bien possible)"
    ELSE IF total_400 >= 24000 THEN "Satisfactory (Mention Assez Bien possible)"
    ELSE IF total_400 >= 20000 THEN "Pass level"
    ELSE "Below pass level"

\* ------------------------------------------------------ request handler

\* lines 514 and 611: the sort key, e.get("date_obj") or date.min
sort_key(e) == IF e.date_obj.kind = "None" THEN date_min ELSE e.date_obj

\* a < b between two keys of one kind
key_less(a, b) ==
    \/ a.day < b.day
    \/ a.day = b.day /\ a.kind = "datetime" /\ a.time < b.time

\* Comparing a datetime.datetime with a datetime.date raises TypeError, and a
\* sort of two or more keys compares at least one pair of each two kinds.
sort_raises(evaluations) ==
    \E i, j \in 1..Len(evaluations) :
        sort_key(evaluations[i]).kind # sort_key(evaluations[j]).kind

\* sorted(..., reverse=True) is stable: e goes behind every key not less than its own
RECURSIVE sorted_newest_first(_)
sorted_newest_first(evaluations) ==
    IF evaluations = <<>> THEN <<>>
    ELSE LET n    == Len(evaluations)
             e    == evaluations[n]
             rest == sorted_newest_first(SubSeq(evaluations, 1, n - 1))
             k    == Cardinality({j \in 1..Len(rest) :
                                     ~key_less(sort_key(rest[j]), sort_key(e))})
         IN  SubSeq(rest, 1, k) \o <<e>> \o SubSeq(rest, k + 1, Len(rest))

\* lines 260 and 230: compute_brevet_stats iterates the acquisitions of every
\* raw evaluation, and iterating None raises TypeError
stats_raises(raw) ==
    \E i \in 1..Len(raw) : holds_none(raw[i], "acquisitions")

\* lines 510-535: what a successful login stores for the session (the
\* report's date, year, student and class names are left out: they are
\* read from the clock and from client.info, and no score depends on them)
session_entry(evaluations, raw) ==
    LET evaluations_sorted == sorted_newest_first(evaluations)
        brevet_stats       == compute_brevet_stats(raw)
    IN  [evaluations       |-> evaluations_sorted,
         subject_averages  |-> calculate_subject_averages(evaluations_sorted),
         brevet_stats      |-> brevet_stats,
         performance_level |-> get_performance_level(brevet_stats.total_400),
         total_evaluations |-> Len(evaluations_sorted)]

\* ----------------------------------------------------------- input sets

SeqsUpTo(S, n) == UNION {[1..k -> S] : k \in 0..n}

acquisition(abbrev, pillar) == [abbreviation |-> abbrev, pillar_prefix |-> pillar]

\* "D1.1,D1.2,D1.3,D1.4,D2,D3,D4,D5"
AllEight ==
    <<"D1.1", ",", "D1.2", ",", "D1.3", ",", "D1.4", ",",
      "D2", ",", "D3", ",", "D4", ",", "D5">>

\* Acquisitions of the tagged runs: the four grades and an unknown code under
\* one domain, a grade under two domains ("D1.1, D2"), under a tag outside
\* the eight, under all eight, and untagged acquisitions.
AcqInputs ==
    {acquisition(a, <<"D1.1">>) : a \in {"A+", "A", "C", "E", "Abs"}}
    \cup {acquisition("C", <<"D1.1", ",", " ", "D2">>),
          acquisition("A", <<"X9">>),
          acquisition("A+", AllEight),
          acquisition("C", <<>>),
          acquisition("", <<>>)}

\* Acquisitions of the runs that count tags: graded, ungraded and unknown
\* codes under one tag, under two ("D1.1, D2"), under all eight, under a tag
\* with blanks around it (" D3 "), under a tag outside the eight, and no tag
TagInputs ==
    {acquisition("A+", <<"D1.1">>),
     acquisition("A", AllEight),
     acquisition("Abs", <<"D1.1">>),
     acquisition("", <<"D2">>),
     acquisition("C", <<"D1.1", ",", " ", "D2">>),
     acquisition("E", <<" ", "D3", " ">>),
     acquisition("A", <<"X9">>),
     acquisition("C", <<>>)}

\* Acquisitions of the graded runs: untagged, every kind of grade code
GradeInputs == {acquisition(a, <<>>) : a \in {"A+", "A", "C", ""}}

a_date == [kind |-> "date", day |-> 5]

evaluation_of(i, s, c, acqs) ==
    [name         |-> <<"Eval", i>>,
     subject      |-> [kind |-> "Subject", name |-> s],
     date         |-> a_date,
     coefficient  |-> c,
     acquisitions |-> acqs]

RECURSIVE acquisition_count(_)
acquisition_count(evaluations) ==
    IF evaluations = <<>> THEN 0
    ELSE (IF holds_none(Head(evaluations), "acquisitions") THEN 0
          ELSE Len(Head(evaluations).acquisitions))
         + acquisition_count(Tail(evaluations))

\* The i-th evaluation a client can yield, with at most room acquisitions
TaggedEvaluations(i, room) ==
    {evaluation_of(i, s, 1, acqs) :
        s \in {"Math", "DNL HG"}, acqs \in SeqsUpTo(AcqInputs, room)}

CountedEvaluations(i, room) ==
    {evaluation_of(i, s, 1, acqs) :
        s \in {"Math", "DNL HG"}, acqs \in SeqsUpTo(TagInputs, room)}

GradedEvaluations(i, room) ==
    {evaluation_of(i, s, c, acqs) :
        s \in {"Math", "SVT"}, c \in {0, 2, 3}, acqs \in SeqsUpTo(GradeInputs, room)}

\* The evaluation of a client with one evaluation, every acquisition under "D3"
OneDomainEvaluations ==
    {evaluation_of(1, "Math", 1, acqs) :
        acqs \in SeqsUpTo({acquisition(a, <<"D3">>) : a \in {"A+", "A", "C", "E", ""}},
                          MaxAcqOne)}

\* The evaluation of a client with one evaluation, every acquisition untagged,
\* in the subject of the side channel or in another one
SideChannelEvaluations ==
    {evaluation_of(1, s, 1, acqs) :
        s \in {"DNL HG", "Math"},
        acqs \in SeqsUpTo({acquisition(a, <<>>) : a \in {"A+", "A", "C", "E", ""}},
                          MaxAcqOne)}

\* Acquisitions of the runs with empty tags: a tag, a blank field (" "), a
\* field ending in a comma ("D1.1,"), the tag "EMPTY", and no tag
EmptyTagInputs ==
    {acquisition("A+", <<"D1.1">>),
     acquisition("A", <<" ">>),
     acquisition("C", <<"D1.1", ",">>),
     acquisition("E", <<"EMPTY">>),
     acquisition("A", <<>>)}

EmptyTagEvaluations(i, room) ==
    {evaluation_of(i, "Math", 1, acqs) : acqs \in SeqsUpTo(EmptyTagInputs, room)}

\* an evaluation that has no coefficient attribute
evaluation_without_coefficient(i, s, acqs) ==
    [name         |-> <<"Eval", i>>,
     subject      |-> [kind |-> "Subject", name |-> s],
     date         |-> a_date,
     acquisitions |-> acqs]

\* Evaluations of one subject with a coefficient of 1, of 3, or with none
WeightedEvaluations(i, room) ==
    {evaluation_of(i, "Math", c, acqs) :
        c \in {1, 3}, acqs \in SeqsUpTo(GradeInputs, room)}
    \cup {evaluation_without_coefficient(i, "Math", acqs) :
             acqs \in SeqsUpTo(GradeInputs, room)}

\* The dates an evaluation can carry: a date, a datetime, None, two ISO
\* texts, a text that is no date, the empty text
DateInputs ==
    {a_date,
     [kind |-> "datetime", day |-> 9, time |-> 830],
     None,
     [kind |-> "str", text |-> "2024-01-05"],
     [kind |-> "str", text |-> "2024-01-09T08:30:00"],
     [kind |-> "str", text |-> "soon"],
     [kind |-> "str", text |-> ""]}

\* Acquisitions of the dated runs: untagged, a known code, an unknown one, none
CodeAcqInputs == {acquisition(a, <<>>) : a \in {"A+", "C", "Abs", ""}}

\* an evaluation whose acquisitions attribute holds None
evaluation_without_list(i, s, c, d) ==
    [name         |-> <<"Eval", i>>,
     subject      |-> [kind |-> "Subject", name |-> s],
     date         |-> d,
     coefficient  |-> c,
     nulls        |-> {"acquisitions"}]

DatedEvaluations(i, room) ==
    {[evaluation_of(i, "Math", 1, acqs) EXCEPT !.date = d] :
        d \in DateInputs, acqs \in SeqsUpTo(CodeAcqInputs, room)}
    \cup {evaluation_without_list(i, "Math", 1, d) : d \in DateInputs}

TotalInputs == {100 * t + f : t \in 0..MaxTotal400, f \in {0, 99}}

CodeInputs == {"A+", "A", "C", "E", "", "Abs", "B", "V+", "a"}

\* ------------------------------------------------------- the web layer

\* line 127: the URL the analyzer is constructed with
default_url == "https://4170004n.index-education.net/pronote/eleve.html"

\* the requests that are served side by side
Requests == {"r1", "r2", "r3"}

\* the requests that two threads serve at the same time
Threads == {"r1", "r2"}

\* the order in which requests served one after the other arrive
Arrival == <<"r1", "r2", "r3">>

\* a request that has not reached the handler yet
idle == [pc |-> "idle"]

\* the two handlers that log in, and the sessions of the browsers
Handlers == {"index", "auto_login"}

Sessions == {"sid1", "sid2"}

\* the routes that read the results of a session
Routes == {"results", "api_data", "export_pdf"}

\* urlparse(url).path of the URLs a request can name, "/" being an atom
url_paths ==
    ("https://a.example/pronote/eleve.html" :> <<"/", "pronote", "/", "eleve.html">>)
    @@ ("https://b.example/pronote" :> <<"/", "pronote">>)
    @@ ("https://b.example/pronote/?login=true" :> <<"/", "pronote", "/">>)
    @@ ("https://c.example/login" :> <<"/", "login">>)

\* path.rstrip('/')
RECURSIVE rstrip_slash(_)
rstrip_slash(path) ==
    IF path # <<>> /\ path[Len(path)] = "/"
    THEN rstrip_slash(SubSeq(path, 1, Len(path) - 1)) ELSE path

endswith(path, suffix) ==
    /\ Len(path) >= Len(suffix)
    /\ SubSeq(path, Len(path) - Len(suffix) + 1, Len(path)) = suffix

\* lines 484-489 and 585-589: the path, without its trailing slashes, ends
\* with /pronote or with /eleve.html
valid_pronote_url(url) ==
    LET normalized_path == rstrip_slash(url_paths[url])
    IN  \/ endswith(normalized_path, <<"/", "pronote">>)
        \/ endswith(normalized_path, <<"/", "eleve.html">>)

\* URLs that pass the validation of lines 484-496 and 585-592
UrlInputs == {"https://a.example/pronote/eleve.html", "https://b.example/pronote"}

\* URLs of the runs of the sessions: one that ends with /eleve.html, one
\* with a trailing slash and a query after /pronote, one with another path
SessionUrlInputs ==
    {"https://a.example/pronote/eleve.html",
     "https://b.example/pronote/?login=true",
     "https://c.example/login"}

\* what the client can come to in the runs of the sessions
SessionOutcomeInputs ==
    {[kind |-> "logged_in"], [kind |-> "rejected"],
     [kind |-> "raises", msg |-> "timed out"]}

\* what constructing the Client at a URL can come to: a login, a refused
\* login (logged_in false), an account without periods, an exception
OutcomeInputs ==
    {[kind |-> "logged_in"], [kind |-> "rejected"], [kind |-> "no_periods"],
     [kind |-> "raises", msg |-> "Decryption failed while trying to un pad"],
     [kind |-> "raises", msg |-> "timed out"]}

\* the evaluations that the account at a URL holds
ServerEvaluations(url) ==
    IF url = "https://a.example/pronote/eleve.html"
    THEN <<evaluation_of(1, "Math", 1, <<acquisition("A+", <<"D1.1">>)>>)>>
    ELSE IF url \in {"https://b.example/pronote", "https://b.example/pronote/?login=true"}
    THEN <<evaluation_of(1, "SVT", 2, <<acquisition("E", <<"D2">>)>>),
           evaluation_of(2, "SVT", 1, <<acquisition("C", <<>>)>>)>>
    ELSE <<>>

\* -------------------------------------------------------------- actions

Init ==
    /\ pc = "fetch"
    /\ evaluations_raw = <<>>
    /\ evaluations_processed = <<>>
    /\ returned = None
    /\ STORE = EmptyDict
    /\ fixed_url = default_url
    /\ requests = [r \in Requests |-> idle]
    /\ fn = "none"
    /\ arg = None
    /\ ret = None

\* append_processed without the test of line 171
append_processed_always(processed, ev) == Append(processed, ev)

\* lines 171-172: if ev: evaluations_processed.append(ev)
append_processed(processed, ev) ==
    IF ev # None THEN Append(processed, ev) ELSE processed

\* connect_and_fetch, lines 166-175: one turn of the loop over the evaluations
fetch_evaluation(evaluation) ==
    /\ pc = "fetch"
    /\ evaluations_raw' = Append(evaluations_raw, evaluation)
    /\ evaluations_processed' =
           append_processed(evaluations_processed, process_evaluation(evaluation))
    /\ UNCHANGED <<pc, returned, STORE, fn, arg, ret, fixed_url, requests>>

\* lines 178-187: client.info as a dict
info_of_client == [student_name |-> "name", class_name |-> "class_name"]

\* lines 189-190: the tuple of a fetch that went through
fetched(processed, raw) ==
    <<TRUE,
      [id |-> "Successfully fetched %(n)d evaluations", n |-> Len(processed)],
      processed, info_of_client, raw>>

\* connect_and_fetch, lines 177-190, then index, lines 504-538: the loop is
\* over, connect_and_fetch returns success; index sorts, computes and stores,
\* and an exception of the sort or of the statistics leaves the handler
index_post(sid) ==
    /\ pc = "fetch"
    /\ returned' = fetched(evaluations_processed, evaluations_raw)
    /\ IF sort_raises(evaluations_processed) \/ stats_raises(evaluations_raw)
       THEN /\ pc' = "error"
            /\ UNCHANGED STORE
       ELSE /\ pc' = "done"
            /\ STORE' = DictSet(STORE, sid,
                                session_entry(evaluations_processed, evaluations_raw))
    /\ UNCHANGED <<evaluations_raw, evaluations_processed, fn, arg, ret,
                   fixed_url, requests>>

\* the pure functions, each called on an argument of its own
call_grade_abbreviation_to_palier(abbrev) ==
    /\ fn = "none"
    /\ fn' = "grade_abbreviation_to_palier"
    /\ arg' = abbrev
    /\ ret' = grade_abbreviation_to_palier(abbrev)
    /\ UNCHANGED <<pc, evaluations_raw, evaluations_processed, returned, STORE,
                   fixed_url, requests>>

call_convert_grade_for_display(grade) ==
    /\ fn = "none"
    /\ fn' = "convert_grade_for_display"
    /\ arg' = grade
    /\ ret' = convert_grade_for_display(grade)
    /\ UNCHANGED <<pc, evaluations_raw, evaluations_processed, returned, STORE,
                   fixed_url, requests>>

call_app_grade_to_points(grade) ==
    /\ fn = "none"
    /\ fn' = "app.grade_to_points"
    /\ arg' = grade
    /\ ret' = app_grade_to_points(grade)
    /\ UNCHANGED <<pc, evaluations_raw, evaluations_processed, returned, STORE,
                   fixed_url, requests>>

call_cli_grade_to_points(grade) ==
    /\ fn = "none"
    /\ fn' = "pronote_analyzer.grade_to_points"
    /\ arg' = grade
    /\ ret' = cli_grade_to_points(grade)
    /\ UNCHANGED <<pc, evaluations_raw, evaluations_processed, returned, STORE,
                   fixed_url, requests>>

call_get_performance_level(total_400) ==
    /\ fn = "none"
    /\ fn' = "get_performance_level"
    /\ arg' = total_400
    /\ ret' = get_performance_level(total_400)
    /\ UNCHANGED <<pc, evaluations_raw, evaluations_processed, returned, STORE,
                   fixed_url, requests>>

\* lines 166-175: the whole loop over the evaluations, from position i on
RECURSIVE process_all(_, _, _)
process_all(raw, i, processed) ==
    IF i > Len(raw) THEN processed
    ELSE process_all(raw, i + 1,
                     append_processed(processed, process_evaluation(raw[i])))

\* lines 193-201: the message of an exception (the text for code 23 apart)
error_message(msg) ==
    IF msg = "Decryption failed while trying to un pad"
    THEN [id |-> "Incorrect password. / Mot de passe incorrect."]
    ELSE [id |-> "Unexpected connection error / Erreur de connexion inconnue: %(m)s",
          m  |-> msg]

\* lines 139-204: what connect_and_fetch returns for a client at pronote_url
connect_result(pronote_url, outcome) ==
    CASE outcome.kind = "rejected" ->
             <<FALSE, [id |-> "Login failed. Please check your credentials."],
               <<>>, EmptyDict, <<>>>>
      [] outcome.kind = "no_periods" ->
             <<TRUE, [id |-> "No periods found"], <<>>, info_of_client, <<>>>>
      [] outcome.kind = "logged_in" ->
             fetched(process_all(ServerEvaluations(pronote_url), 1, <<>>),
                     ServerEvaluations(pronote_url))
      [] outcome.kind = "raises" ->
             <<FALSE, error_message(outcome.msg), <<>>, EmptyDict>>

\* index, lines 498-499, and auto_login, line 598: the request has chosen a
\* valid URL and writes it into the analyzer of the module
set_fixed_url(r, handler, sid, chosen_url) ==
    /\ requests[r].pc = "idle"
    /\ valid_pronote_url(chosen_url)
    /\ fixed_url' = chosen_url
    /\ requests' = [requests EXCEPT ![r] =
           [pc |-> "url_set", handler |-> handler, sid |-> sid,
            chosen_url |-> chosen_url]]
    /\ UNCHANGED <<pc, evaluations_raw, evaluations_processed, returned, STORE,
                   fn, arg, ret>>

\* connect_and_fetch, lines 129-207, called at lines 504 and 604: the URL is
\* read from the analyzer (line 138) and the client is built for it
connect_and_fetch(r, outcome) ==
    /\ requests[r].pc = "url_set"
    /\ requests' = [requests EXCEPT ![r] =
           [pc |-> "fetched", handler |-> requests[r].handler,
            sid |-> requests[r].sid, chosen_url |-> requests[r].chosen_url,
            pronote_url |-> fixed_url,
            returned |-> connect_result(fixed_url, outcome)]]
    /\ UNCHANGED <<pc, evaluations_raw, evaluations_processed, returned, STORE,
                   fn, arg, ret, fixed_url>>

\* the store with one entry, the same for every session
store_key_shared(req) == "sid1"

\* lines 523 and 619: the key of the entry, session["sid"]
store_key(req) == req.sid

\* store_after writing the entry before the test of success
store_after_unchecked(store, req) ==
    LET result == req.returned
    IN  IF Len(result) = 5 /\ ~(sort_raises(result[3]) \/ stats_raises(result[5]))
        THEN DictSet(store, store_key(req), session_entry(result[3], result[5]))
        ELSE store

\* lines 504-535 and 604-629: STORE once the handler is left; nothing is
\* written when the unpacking, the sort or the statistics raise, nor when
\* success is false
store_after(store, req) ==
    LET result == req.returned
        raises == \/ Len(result) # 5
                  \/ result[1] /\ (sort_raises(result[3]) \/ stats_raises(result[5]))
    IN  IF ~raises /\ result[1]
        THEN DictSet(store, store_key(req), session_entry(result[3], result[5]))
        ELSE store

\* index, lines 504-538, and auto_login, lines 604-632: unpack the tuple
\* (ValueError when it has not five items), report a failure, or sort,
\* compute, store and answer
respond(r) ==
    /\ requests[r].pc = "fetched"
    /\ LET req    == requests[r]
           result == req.returned
           raises == \/ Len(result) # 5
                     \/ result[1] /\ (sort_raises(result[3]) \/ stats_raises(result[5]))
           response ==
               IF raises THEN "500"
               ELSE IF ~result[1]
                    THEN (IF req.handler = "index" THEN "flash Connection failed"
                          ELSE "401")
                    ELSE (IF req.handler = "index" THEN "redirect results" ELSE "200")
       IN  /\ requests' = [requests EXCEPT ![r] =
                  [pc |-> "responded", handler |-> req.handler, sid |-> req.sid,
                   chosen_url |-> req.chosen_url, pronote_url |-> req.pronote_url,
                   returned |-> result, response |-> response]]
           /\ STORE' = store_after(STORE, req)
    /\ UNCHANGED <<pc, evaluations_raw, evaluations_processed, returned,
                   fn, arg, ret, fixed_url>>

\* index, lines 459 and 539-540: the form does not validate; auto_login,
\* lines 556-568: no JSON body, or no credentials in it
reject_form(r, handler, sid) ==
    /\ requests[r].pc = "idle"
    /\ requests' = [requests EXCEPT ![r] =
           [pc |-> "responded", handler |-> handler, sid |-> sid,
            response |-> IF handler = "index"
                         THEN "flash Please check your input and try again."
                         ELSE "400"]]
    /\ UNCHANGED <<pc, evaluations_raw, evaluations_processed, returned, STORE,
                   fn, arg, ret, fixed_url>>

\* index, lines 483-496, and auto_login, lines 584-592: the chosen URL does
\* not pass the validation
reject_url(r, handler, sid, chosen_url) ==
    /\ requests[r].pc = "idle"
    /\ ~valid_pronote_url(chosen_url)
    /\ requests' = [requests EXCEPT ![r] =
           [pc |-> "responded", handler |-> handler, sid |-> sid,
            chosen_url |-> chosen_url,
            response |-> IF handler = "index"
                         THEN "flash Please select or enter a valid Pronote URL"
                         ELSE "400"]]
    /\ UNCHANGED <<pc, evaluations_raw, evaluations_processed, returned, STORE,
                   fn, arg, ret, fixed_url>>

\* lines 674-680: the subjects of the report, by domain name (the list is in
\* the order of the names)
pdf_subjects(domain_scores) ==
    [domain_name \in {d \in DOMAIN domain_scores : d # <<"EMPTY">>} |->
        [score_50 |-> domain_scores[domain_name].avg_points_50,
         score_20 |-> domain_scores[domain_name].avg_points_20]]

\* what a route hands to its template or to jsonify: lines 641-648, 657,
\* 670-693
body_of(route, data) ==
    CASE route = "results" ->
             [evaluations       |-> data.evaluations,
              subject_averages  |-> data.subject_averages,
              brevet_stats      |-> data.brevet_stats,
              performance_level |-> data.performance_level,
              total_evaluations |-> data.total_evaluations]
      [] route = "api_data" -> data
      [] route = "export_pdf" ->
             [subjects          |-> pdf_subjects(data.brevet_stats.domain_scores),
              total_400         |-> data.brevet_stats.total_400,
              performance_level |-> data.performance_level]

\* results, lines 634-649, api_data, lines 651-657, export_pdf, lines
\* 664-707: without an entry of the session, a redirect to index (400 from
\* api_data); with one, the page, the JSON or the report made from it
serve(r, route, sid) ==
    /\ requests[r].pc = "idle"
    /\ requests' = [requests EXCEPT ![r] =
           IF sid \notin DOMAIN STORE
           THEN [pc |-> "responded", handler |-> route, sid |-> sid,
                 response |-> IF route = "api_data" THEN "400" ELSE "redirect index",
                 body |-> None]
           ELSE [pc |-> "responded", handler |-> route, sid |-> sid,
                 response |-> "200",
                 body |-> body_of(route, STORE[sid])]]
    /\ UNCHANGED <<pc, evaluations_raw, evaluations_processed, returned, STORE,
                   fn, arg, ret, fixed_url>>

\* ------------------------------------------------------- specifications

\* what the client yields next, within the bounds
fetch_tagged ==
    /\ Len(evaluations_raw) < MaxEvals
    /\ \E e \in TaggedEvaluations(Len(evaluations_raw) + 1,
                    MaxAcqTotal - acquisition_count(evaluations_raw)) :
           fetch_evaluation(e)

fetch_graded ==
    /\ Len(evaluations_raw) < MaxEvals
    /\ \E e \in GradedEvaluations(Len(evaluations_raw) + 1,
                    MaxAcqTotal - acquisition_count(evaluations_raw)) :
           fetch_evaluation(e)

fetch_one_domain ==
    /\ evaluations_raw = <<>>
    /\ \E e \in OneDomainEvaluations : fetch_evaluation(e)

fetch_side_channel ==
    /\ evaluations_raw = <<>>
    /\ \E e \in SideChannelEvaluations : fetch_evaluation(e)

fetch_empty_tags ==
    /\ Len(evaluations_raw) < MaxEvals
    /\ \E e \in EmptyTagEvaluations(Len(evaluations_raw) + 1,
                    MaxAcqTotal - acquisition_count(evaluations_raw)) :
           fetch_evaluation(e)

fetch_weighted ==
    /\ Len(evaluations_raw) < MaxEvals
    /\ \E e \in WeightedEvaluations(Len(evaluations_raw) + 1,
                    MaxAcqTotal - acquisition_count(evaluations_raw)) :
           fetch_evaluation(e)

fetch_counted ==
    /\ Len(evaluations_raw) < MaxEvals
    /\ \E e \in CountedEvaluations(Len(evaluations_raw) + 1,
                    MaxAcqTotal - acquisition_count(evaluations_raw)) :
           fetch_evaluation(e)

fetch_dated ==
    /\ Len(evaluations_raw) < MaxEvals
    /\ \E e \in DatedEvaluations(Len(evaluations_raw) + 1,
                    MaxAcqTotal - acquisition_count(evaluations_raw)) :
           fetch_evaluation(e)

\* A login whose client yields tagged acquisitions
Next == fetch_tagged \/ index_post("sid1")

Spec == Init /\ [][Next]_vars

\* A login whose client yields graded, weighted evaluations of several subjects
NextGraded == fetch_graded \/ index_post("sid1")

SpecGraded == Init /\ [][NextGraded]_vars

\* A login whose client yields one evaluation with every acquisition in one domain
NextDomain == fetch_one_domain \/ index_post("sid1")

SpecDomain == Init /\ [][NextDomain]_vars

\* A login whose client yields one evaluation of untagged acquisitions
NextSideChannel == fetch_side_channel \/ index_post("sid1")

SpecSideChannel == Init /\ [][NextSideChannel]_vars

\* A login whose client yields acquisitions with empty tags
NextEmptyTag == fetch_empty_tags \/ index_post("sid1")

SpecEmptyTag == Init /\ [][NextEmptyTag]_vars

\* A login whose client yields evaluations with and without a coefficient
NextWeighted == fetch_weighted \/ index_post("sid1")

SpecWeighted == Init /\ [][NextWeighted]_vars

\* A login whose client yields acquisitions tagged in every way
NextCounted == fetch_counted \/ index_post("sid1")

SpecCounted == Init /\ [][NextCounted]_vars

\* A login whose client yields evaluations with every kind of date, and
\* evaluations that cannot be normalized
NextNormalizer == fetch_dated \/ index_post("sid1")

SpecNormalizer == Init /\ [][NextNormalizer]_vars

\* Two logins served side by side by the threads of one process
NextConcurrent ==
    \/ \E r \in Threads, handler \in Handlers, sid \in Sessions, url \in UrlInputs :
           set_fixed_url(r, handler, sid, url)
    \/ \E r \in Threads, outcome \in OutcomeInputs : connect_and_fetch(r, outcome)
    \/ \E r \in Threads : respond(r)

SpecConcurrent == Init /\ [][NextConcurrent]_vars

\* the request whose turn it is: the first one in the order of arrival that
\* has not been answered
in_turn(r) ==
    \E k \in 1..Len(Arrival) :
        /\ Arrival[k] = r
        /\ requests[r].pc # "responded"
        /\ \A j \in 1..(k - 1) : requests[Arrival[j]].pc = "responded"

\* Logins and readings of several sessions, served one after the other
next_reject_form(r, handler, sid) == in_turn(r) /\ reject_form(r, handler, sid)

next_reject_url(r, handler, sid, url) == in_turn(r) /\ reject_url(r, handler, sid, url)

next_set_fixed_url(r, handler, sid, url) ==
    in_turn(r) /\ set_fixed_url(r, handler, sid, url)

next_connect_and_fetch(r, outcome) == in_turn(r) /\ connect_and_fetch(r, outcome)

next_respond(r) == in_turn(r) /\ respond(r)

next_serve(r, route, sid) == in_turn(r) /\ serve(r, route, sid)

NextSessions ==
    \/ \E r \in Requests, handler \in Handlers, sid \in Sessions :
           next_reject_form(r, handler, sid)
    \/ \E r \in Requests, handler \in Handlers, sid \in Sessions,
          url \in SessionUrlInputs :
           next_reject_url(r, handler, sid, url)
    \/ \E r \in Requests, handler \in Handlers, sid \in Sessions,
          url \in SessionUrlInputs :
           next_set_fixed_url(r, handler, sid, url)
    \/ \E r \in Requests, outcome \in SessionOutcomeInputs :
           next_connect_and_fetch(r, outcome)
    \/ \E r \in Requests : next_respond(r)
    \/ \E r \in Requests, route \in Routes, sid \in Sessions :
           next_serve(r, route, sid)

SpecSessions == Init /\ [][NextSessions]_vars

\* The pure functions on their own
NextPure ==
    \/ \E c \in CodeInputs : call_grade_abbreviation_to_palier(c)
    \/ \E c \in CodeInputs : call_convert_grade_for_display(c)
    \/ \E c \in CodeInputs : call_app_grade_to_points(c)
    \/ \E c \in CodeInputs : call_cli_grade_to_points(c)
    \/ \E t \in TotalInputs : call_get_performance_level(t)

SpecPure == Init /\ [][NextPure]_vars

\* ======================================================================
\* Properties
\* ======================================================================

\* what the login of session sid1 stored
stored == STORE["sid1"]

\* the eight official domains, as keys of domain_scores
CanonicalDomains ==
    {<<"D1.1">>, <<"D1.2">>, <<"D1.3">>, <<"D1.4">>, <<"D2">>, <<"D3">>, <<"D4">>, <<"D5">>}

\* the point values of the four known grade codes, stated apart from the codec
PointsOfKnown(code) ==
    CASE code = "A+" -> 50 [] code = "A" -> 40 [] code = "C" -> 25 [] code = "E" -> 10

KnownCodes == {"A+", "A", "C", "E"}

\* the tag names written in a pillar_prefix: its atoms other than commas and blanks
TagNames(pillar) == SelectSeq(pillar, LAMBDA x : x \notin {",", " "})

\* every (evaluation, acquisition, tag) position of the raw collection
TagPositions ==
    UNION {UNION {{<<i, j, k>> :
                      k \in 1..Len(TagNames(evaluations_raw[i].acquisitions[j].pillar_prefix))} :
                  j \in 1..Len(evaluations_raw[i].acquisitions)} :
           i \in 1..Len(evaluations_raw)}

TagAt(t) == TagNames(evaluations_raw[t[1]].acquisitions[t[2]].pillar_prefix)[t[3]]

CodeAt(t) == evaluations_raw[t[1]].acquisitions[t[2]].abbreviation

\* the positions that name domain d, and what they add up to
Occurrences(d) == {t \in TagPositions : <<TagAt(t)>> = d}

ExpectedCount(d) == Cardinality(Occurrences(d))

ExpectedSum(d) ==
    50 * Cardinality({t \in Occurrences(d) : CodeAt(t) = "A+"})
    + 40 * Cardinality({t \in Occurrences(d) : CodeAt(t) = "A"})
    + 25 * Cardinality({t \in Occurrences(d) : CodeAt(t) = "C"})
    + 10 * Cardinality({t \in Occurrences(d) : CodeAt(t) = "E"})

\* ---------------------------------------------------------------- C1
\* C1: total_400 is the sum of the snapped scores of exactly the canonical
\* domains that are present; a domain outside the eight adds nothing to it.
C1_TotalIsCanonicalSum ==
    pc = "done" =>
        LET bs == stored.brevet_stats
        IN  bs.total_400 =
                sum_avg_points_50(bs.domain_scores,
                                  (DOMAIN bs.domain_scores) \cap CanonicalDomains)

\* ---------------------------------------------------------------- C2
\* C2: total_400 lies in 0..400 and total_50 is total_400 / 8 (to the two
\* decimals the code keeps).
C2_TotalWithin400 ==
    pc = "done" =>
        LET bs == stored.brevet_stats
        IN  /\ bs.total_400 >= 0
            /\ bs.total_400 <= 40000
            /\ bs.total_50 = RoundDiv(bs.total_400, 8)

\* ---------------------------------------------------------------- C3
\* C3: every domain's raw mean m = sum / count is snapped by the breakpoints
\* m >= 45 -> 50 / V+, 32.5 <= m < 45 -> 40 / V, 17.5 <= m < 32.5 -> 25 / J,
\* m < 17.5 -> 10 / R; each midpoint goes to the higher tier.
C3_SnapByBreakpoints ==
    pc = "done" =>
        \A d \in DOMAIN stored.brevet_stats.domain_scores :
            LET e  == stored.brevet_stats.domain_scores[d]
                t  == ExpectedSum(d)
                n  == ExpectedCount(d)
                is(points, symbol) ==
                    /\ e.avg_points_50 = 100 * points
                    /\ e.palier = symbol
            IN  /\ n > 0
                /\ (2 * t >= 90 * n) => is(50, "V+")
                /\ (2 * t >= 65 * n /\ 2 * t < 90 * n) => is(40, "V")
                /\ (2 * t >= 35 * n /\ 2 * t < 65 * n) => is(25, "J")
                /\ (2 * t < 35 * n) => is(10, "R")
                /\ \/ is(50, "V+") \/ is(40, "V") \/ is(25, "J") \/ is(10, "R")

\* a domain whose raw mean is exactly the midpoint 32.5, snapped to 40 / V
C3_Witness ==
    /\ pc = "done"
    /\ <<"D3">> \in DOMAIN stored.brevet_stats.domain_scores
    /\ 2 * ExpectedSum(<<"D3">>) = 65 * ExpectedCount(<<"D3">>)
    /\ stored.brevet_stats.domain_scores[<<"D3">>].avg_points_50 = 4000
    /\ stored.brevet_stats.domain_scores[<<"D3">>].palier = "V"

\* ---------------------------------------------------------------- C4
\* C4: an acquisition whose pillar_prefix lists several tags adds one to the
\* count and its full point value to the sum of every listed domain, the
\* tags being trimmed; so every domain's count and sum are those of the tag
\* positions that name it.
C4_FullValueToEveryTag ==
    pc = "done" =>
        LET ds  == stored.brevet_stats.domain_scores
            dpp == collect_palier_points(EmptyDict, evaluations_raw, 1)
        IN  /\ DOMAIN ds = {<<TagAt(t)>> : t \in TagPositions}
            /\ DOMAIN dpp = DOMAIN ds
            /\ \A d \in DOMAIN ds :
                   /\ ds[d].count = ExpectedCount(d)
                   /\ sum(dpp[d]) = ExpectedSum(d)
                   /\ ds[d].raw_avg = RoundDiv(100 * ExpectedSum(d), ExpectedCount(d))

\* "D1.1, D2" graded C beside a second acquisition under D1.1: D2 holds the
\* full 25 and D1.1 counts both
C4_Witness ==
    /\ pc = "done"
    /\ \E i \in 1..Len(evaluations_raw) :
           \E j \in 1..Len(evaluations_raw[i].acquisitions) :
               /\ evaluations_raw[i].acquisitions[j].pillar_prefix = <<"D1.1", ",", " ", "D2">>
               /\ evaluations_raw[i].acquisitions[j].abbreviation = "C"
    /\ DOMAIN stored.brevet_stats.domain_scores = {<<"D1.1">>, <<"D2">>}
    /\ stored.brevet_stats.domain_scores[<<"D2">>].count = 1
    /\ stored.brevet_stats.domain_scores[<<"D2">>].raw_avg = 2500
    /\ stored.brevet_stats.domain_scores[<<"D1.1">>].count = 2

\* ---------------------------------------------------------------- C5
TierRank(level) ==
    CASE level = "Outstanding (Mention Tres Bien avec Felicitations)" -> 5
      [] level = "Excellent (Mention Tres Bien possible)" -> 4
      [] level = "Good (Mention Bien possible)" -> 3
      [] level = "Satisfactory (Mention Assez Bien possible)" -> 2
      [] level = "Pass level" -> 1
      [] level = "Below pass level" -> 0

\* C5: get_performance_level maps a total to one tier, >= 360 Outstanding,
\* >= 320 Excellent, >= 280 Good, >= 240 Satisfactory, >= 200 Pass, else
\* Below pass; a boundary belongs to the higher tier and the tier never
\* decreases when the total increases.
C5_PerformanceTiers ==
    fn = "get_performance_level" =>
        /\ (arg >= 36000) <=> (TierRank(ret) = 5)
        /\ (arg >= 32000 /\ arg < 36000) <=> (TierRank(ret) = 4)
        /\ (arg >= 28000 /\ arg < 32000) <=> (TierRank(ret) = 3)
        /\ (arg >= 24000 /\ arg < 28000) <=> (TierRank(ret) = 2)
        /\ (arg >= 20000 /\ arg < 24000) <=> (TierRank(ret) = 1)
        /\ (arg < 20000) <=> (TierRank(ret) = 0)
        /\ \A t \in TotalInputs :
               t <= arg => TierRank(get_performance_level(t)) <= TierRank(ret)

\* the boundary 360 itself is Outstanding
C5_Witness ==
    /\ fn = "get_performance_level"
    /\ arg = 36000
    /\ ret = "Outstanding (Mention Tres Bien avec Felicitations)"

\* ---------------------------------------------------------------- C6
\* C6: an empty raw collection gives domain_scores = {} and total_400 = 0,
\* the Below pass tier, and an empty map of subject averages.
C6_EmptyCollection ==
    (pc = "done" /\ evaluations_raw = <<>>) =>
        /\ stored.brevet_stats.domain_scores = EmptyDict
        /\ stored.brevet_stats.total_400 = 0
        /\ stored.performance_level = "Below pass level"
        /\ stored.subject_averages = EmptyDict
        /\ stored.total_evaluations = 0

\* a login that fetched no evaluation and stored its results
C6_Witness ==
    /\ pc = "done"
    /\ evaluations_raw = <<>>
    /\ "sid1" \in DOMAIN STORE

\* ---------------------------------------------------------------- C7
RECURSIVE SumOver(_, _)
SumOver(f, S) ==
    IF S = {} THEN 0
    ELSE LET x == CHOOSE y \in S : TRUE IN f[x] + SumOver(f, S \ {x})

EvaluationsOf(subject) ==
    {i \in 1..Len(evaluations_processed) : evaluations_processed[i].subject = subject}

CoefficientSum(subject) ==
    SumOver([i \in EvaluationsOf(subject) |-> evaluations_processed[i].coefficient],
            EvaluationsOf(subject))

WeightedSum(subject) ==
    SumOver([i \in EvaluationsOf(subject) |->
                evaluations_processed[i].coefficient
                * evaluations_processed[i].average_points],
            EvaluationsOf(subject))

\* C7: a subject's average is (sum of coefficient x average_points) / (sum
\* of coefficient) over that subject's evaluations alone, times 0.4 once;
\* 0 when the coefficients sum to zero; coefficients 2 and 3 with averages
\* 40 and 25 give 12.4 out of 20.
C7_WeightedSubjectAverage ==
    pc = "done" =>
        /\ DOMAIN stored.subject_averages =
               {evaluations_processed[i].subject : i \in 1..Len(evaluations_processed)}
        /\ \A subject \in DOMAIN stored.subject_averages :
               stored.subject_averages[subject] =
                   IF CoefficientSum(subject) = 0 THEN 0
                   ELSE RoundDiv(4 * WeightedSum(subject), 10 * CoefficientSum(subject))
        /\ (\E i, j \in 1..Len(evaluations_processed) :
               /\ Len(evaluations_processed) = 2
               /\ evaluations_processed[i].subject = "Math"
               /\ evaluations_processed[i].coefficient = 2
               /\ evaluations_processed[i].average_points = 4000
               /\ evaluations_processed[j].subject = "Math"
               /\ evaluations_processed[j].coefficient = 3
               /\ evaluations_processed[j].average_points = 2500)
           => stored.subject_averages["Math"] = 1240

\* the scenario: Math, coefficients 2 and 3, average points 40 and 25
C7_Witness ==
    /\ pc = "done"
    /\ Len(evaluations_processed) = 2
    /\ evaluations_processed[1].subject = "Math"
    /\ evaluations_processed[1].coefficient = 2
    /\ evaluations_processed[1].average_points = 4000
    /\ evaluations_processed[2].subject = "Math"
    /\ evaluations_processed[2].coefficient = 3
    /\ evaluations_processed[2].average_points = 2500
    /\ stored.subject_averages["Math"] = 1240

\* ---------------------------------------------------------------- C8
DisplayOfKnown(code) ==
    CASE code = "A+" -> "V+" [] code = "A" -> "V" [] code = "C" -> "J" [] code = "E" -> "R"

\* C8: the three point mappings send A+, A, C, E to 50, 40, 25, 10 and any
\* other code to 0; the display mapping sends them to V+, V, J, R and
\* returns any other code unchanged; both are one-to-one on the four codes.
C8_CodecTotal ==
    /\ fn \in {"grade_abbreviation_to_palier", "app.grade_to_points",
               "pronote_analyzer.grade_to_points"}
       => ret = IF arg \in KnownCodes THEN PointsOfKnown(arg) ELSE 0
    /\ fn = "convert_grade_for_display"
       => ret = IF arg \in KnownCodes THEN DisplayOfKnown(arg) ELSE arg
    /\ fn # "none"
       => \A a, b \in KnownCodes :
              a # b => /\ grade_abbreviation_to_palier(a) # grade_abbreviation_to_palier(b)
                       /\ convert_grade_for_display(a) # convert_grade_for_display(b)

\* a code outside the four, sent to 0
C8_Witness ==
    /\ fn = "grade_abbreviation_to_palier"
    /\ arg = "a"
    /\ ret = 0

\* ---------------------------------------------------------------- C9
Ungraded(evaluation) ==
    \A j \in 1..Len(evaluation.acquisitions) :
        evaluation.acquisitions[j].abbreviation = ""

\* C9: an evaluation with no graded acquisition is normalized to a record
\* with average_points = 0 and no grades, and the record is in the list that
\* connect_and_fetch returns: no evaluation is skipped.
C9_UngradedKept ==
    /\ Len(evaluations_processed) = Len(evaluations_raw)
    /\ \A i \in 1..Len(evaluations_raw) :
           Ungraded(evaluations_raw[i]) =>
               /\ evaluations_processed[i].name = evaluations_raw[i].name
               /\ evaluations_processed[i].average_points = 0
               /\ evaluations_processed[i].grades = <<>>
               /\ pc = "done" =>
                      \E k \in 1..Len(stored.evaluations) :
                          stored.evaluations[k] = evaluations_processed[i]

\* one evaluation without acquisitions and one whose only acquisition has an
\* empty grade code, both stored
C9_Witness ==
    /\ pc = "done"
    /\ Len(evaluations_raw) = 2
    /\ evaluations_raw[1].acquisitions = <<>>
    /\ Len(evaluations_raw[2].acquisitions) = 1
    /\ evaluations_raw[2].acquisitions[1].abbreviation = ""
    /\ Len(stored.evaluations) = 2
    /\ \A k \in 1..2 : stored.evaluations[k].average_points = 0

\* --------------------------------------------------------------- C10
Qualifying ==
    {q \in UNION {{<<i, j>> : j \in 1..Len(evaluations_raw[i].acquisitions)} :
                  i \in 1..Len(evaluations_raw)} :
        /\ evaluations_raw[q[1]].acquisitions[q[2]].pillar_prefix = <<>>
        /\ evaluations_raw[q[1]].subject.name = "DNL HG"}

\* the place of q among the qualifying acquisitions, in input order
RankOf(q) ==
    Cardinality({r \in Qualifying :
                    r[1] < q[1] \/ (r[1] = q[1] /\ r[2] <= q[2])})

\* C10: an acquisition is recorded in the side-channel list iff its
\* pillar_prefix is empty and its evaluation's subject is exactly "DNL HG";
\* each such acquisition gives one record, in input order.
C10_SideChannelRecords ==
    pc = "done" =>
        LET records == stored.brevet_stats.dnl_hg_acquisitions
        IN  /\ Len(records) = Cardinality(Qualifying)
            /\ \A q \in Qualifying :
                   LET acq == evaluations_raw[q[1]].acquisitions[q[2]]
                   IN  records[RankOf(q)] =
                           [evaluation_name |-> evaluations_raw[q[1]].name,
                            subject         |-> "DNL HG",
                            abbreviation    |-> acq.abbreviation,
                            palier_points   |-> IF acq.abbreviation \in KnownCodes
                                                THEN PointsOfKnown(acq.abbreviation)
                                                ELSE 0]

\* two records, of two evaluations, in the order of the evaluations
C10_Witness ==
    /\ pc = "done"
    /\ Len(stored.brevet_stats.dnl_hg_acquisitions) = 2
    /\ stored.brevet_stats.dnl_hg_acquisitions[1].evaluation_name = <<"Eval", 1>>
    /\ stored.brevet_stats.dnl_hg_acquisitions[1].abbreviation = "C"
    /\ stored.brevet_stats.dnl_hg_acquisitions[2].evaluation_name = <<"Eval", 2>>
    /\ stored.brevet_stats.dnl_hg_acquisitions[2].abbreviation = ""

\* --------------------------------------------------------------- C11
IsDnlHg(evaluation) ==
    evaluation.subject.kind # "None" /\ evaluation.subject.name = "DNL HG"

\* the collection without its side-channel acquisitions
StripSideChannel(raw) ==
    [i \in 1..Len(raw) |->
        IF IsDnlHg(raw[i])
        THEN [raw[i] EXCEPT !.acquisitions =
                 SelectSeq(@, LAMBDA q : q.pillar_prefix # <<>>)]
        ELSE raw[i]]

\* the collection with every side-channel acquisition graded code
RegradeSideChannel(raw, code) ==
    [i \in 1..Len(raw) |->
        IF IsDnlHg(raw[i])
        THEN [raw[i] EXCEPT !.acquisitions =
                 [j \in 1..Len(@) |->
                     IF @[j].pillar_prefix = <<>>
                     THEN [@[j] EXCEPT !.abbreviation = code] ELSE @[j]]]
        ELSE raw[i]]

\* the collection with one more side-channel acquisition in every DNL HG evaluation
AddSideChannel(raw, code) ==
    [i \in 1..Len(raw) |->
        IF IsDnlHg(raw[i])
        THEN [raw[i] EXCEPT !.acquisitions =
                 Append(@, [abbreviation |-> code, pillar_prefix |-> <<>>])]
        ELSE raw[i]]

SideChannelVariants(raw) ==
    {StripSideChannel(raw)}
    \cup {RegradeSideChannel(raw, code) : code \in {"A+", "E", ""}}
    \cup {AddSideChannel(raw, code) : code \in {"A+", "E", ""}}

\* C11: two raw collections that differ only in their side-channel
\* acquisitions (untagged, subject "DNL HG": added, removed or regraded) get
\* the same domain_scores, total_400 and total_50 from compute_brevet_stats.
C11_SideChannelOutsideAggregate ==
    pc = "done" =>
        \A variant \in SideChannelVariants(evaluations_raw) :
            LET other == compute_brevet_stats(variant)
            IN  /\ other.domain_scores = stored.brevet_stats.domain_scores
                /\ other.total_400 = stored.brevet_stats.total_400
                /\ other.total_50 = stored.brevet_stats.total_50

\* a side-channel acquisition graded C (summary score 25) beside a domain
\* scoring 50: the total is 50
C11_Witness ==
    /\ pc = "done"
    /\ Qualifying # {}
    /\ stored.brevet_stats.dnl_hg_score.kind = "dict"
    /\ stored.brevet_stats.dnl_hg_score.avg_points_50 = 2500
    /\ stored.brevet_stats.total_400 = 5000
    /\ StripSideChannel(evaluations_raw) # evaluations_raw

\* --------------------------------------------------------------- C12
\* C12: compute_brevet_stats returns the same five fields (domain_scores,
\* total_50, total_400, dnl_hg_acquisitions, dnl_hg_score) for every input,
\* the empty collection included.
C12_SameFieldsForEveryInput ==
    pc = "done" =>
        DOMAIN stored.brevet_stats =
            {"domain_scores", "total_50", "total_400",
             "dnl_hg_acquisitions", "dnl_hg_score"}

\* --------------------------------------------------------------- C16
\* the pieces of a domain-tag field between its commas, as index ranges
PieceRanges(pillar) ==
    LET starts == {a \in 1..(Len(pillar) + 1) : a = 1 \/ pillar[a - 1] = ","}
        ends   == {b \in 0..Len(pillar) : b = Len(pillar) \/ pillar[b + 1] = ","}
    IN  {<<a, CHOOSE b \in ends : b >= a - 1 /\ \A c \in ends : c >= a - 1 => b <= c>> :
            a \in starts}

\* a piece without the blanks around it
Trimmed(pillar, r) ==
    LET inner == {k \in r[1]..r[2] : pillar[k] # " "}
    IN  IF inner = {} THEN <<>>
        ELSE SubSeq(pillar, CHOOSE k \in inner : \A m \in inner : k <= m,
                            CHOOSE k \in inner : \A m \in inner : k >= m)

\* every (evaluation, acquisition, piece) of the tagged acquisitions
TagOccurrences ==
    UNION {UNION {{<<i, j, r>> :
                      r \in PieceRanges(evaluations_raw[i].acquisitions[j].pillar_prefix)} :
                  j \in {m \in 1..Len(evaluations_raw[i].acquisitions) :
                            evaluations_raw[i].acquisitions[m].pillar_prefix # <<>>}} :
           i \in 1..Len(evaluations_raw)}

TagOf(t) == Trimmed(evaluations_raw[t[1]].acquisitions[t[2]].pillar_prefix, t[3])

GradeOf(t) == evaluations_raw[t[1]].acquisitions[t[2]].abbreviation

\* C16: the keys of domain_scores are exactly the trimmed tags that occur in
\* the tag field of at least one acquisition: a tag outside the eight is a
\* key, and a domain no acquisition names, official or not, is absent.
C16_KeysAreOccurringTags ==
    pc = "done" =>
        LET ds   == stored.brevet_stats.domain_scores
            tags == {TagOf(t) : t \in TagOccurrences}
        IN  /\ \A d \in tags : d \in DOMAIN ds
            /\ \A d \in DOMAIN ds : d \in tags /\ ds[d].count >= 1
            /\ \A d \in CanonicalDomains \ tags : d \notin DOMAIN ds

\* X9 and D3 (written " D3 ") are keys, the seven other official domains
\* are not
C16_Witness ==
    /\ pc = "done"
    /\ \E t \in TagOccurrences : TagOf(t) = <<"X9">>
    /\ \E i \in 1..Len(evaluations_raw) :
           \E j \in 1..Len(evaluations_raw[i].acquisitions) :
               evaluations_raw[i].acquisitions[j].pillar_prefix = <<" ", "D3", " ">>
    /\ DOMAIN stored.brevet_stats.domain_scores = {<<"X9">>, <<"D3">>}

\* --------------------------------------------------------------- C20
PointsOfCode(code) == IF code \in KnownCodes THEN PointsOfKnown(code) ELSE 0

OccurrencesOf(d) == {t \in TagOccurrences : TagOf(t) = d}

PointsOver(occurrences) ==
    SumOver([t \in occurrences |-> PointsOfCode(GradeOf(t))], occurrences)

\* C20: a domain's count is the number of (acquisition, tag) occurrences that
\* name it, graded or not, and its raw mean their points over that count (an
\* empty or unknown code counts 1 with 0 points);
\* count_domains_and_acquisitions returns the same counts.
C20_CountsEveryTaggedAcquisition ==
    pc = "done" =>
        LET ds     == stored.brevet_stats.domain_scores
            counts == count_domains_and_acquisitions(evaluations_raw).domain_counts
            all    == TagOccurrences
        IN  /\ DOMAIN counts = DOMAIN ds
            /\ \A d \in DOMAIN ds :
                   LET occurrences == {t \in all : TagOf(t) = d}
                   IN  /\ ds[d].count = Cardinality(occurrences)
                       /\ counts[d] = ds[d].count
                       /\ ds[d].raw_avg =
                              RoundDiv(100 * PointsOver(occurrences), ds[d].count)

\* D2 named by an acquisition without a grade code and by "D1.1, D2" graded
\* C: count 2, raw mean 12.5
C20_Witness ==
    /\ pc = "done"
    /\ \E t \in OccurrencesOf(<<"D2">>) : GradeOf(t) = ""
    /\ \E t \in OccurrencesOf(<<"D2">>) : GradeOf(t) = "C"
    /\ stored.brevet_stats.domain_scores[<<"D2">>].count = 2
    /\ stored.brevet_stats.domain_scores[<<"D2">>].raw_avg = 1250
    /\ stored.brevet_stats.domain_scores[<<"D2">>].palier = "R"

\* --------------------------------------------------------------- C13
\* the raw evaluations that _process_evaluation can normalize
Normalizable ==
    {i \in 1..Len(evaluations_raw) : "acquisitions" \in DOMAIN evaluations_raw[i]}

\* the place of raw evaluation i among the normalizable ones
PlaceOf(i) == Cardinality({j \in Normalizable : j <= i})

\* C13: an evaluation whose normalization fails is left out of
\* evaluations_processed, every other one is in it, in the order of the raw
\* collection, and connect_and_fetch returns success with both lists.
C13_FailureIsolated ==
    /\ Len(evaluations_processed) = Cardinality(Normalizable)
    /\ \A i \in Normalizable :
           evaluations_processed[PlaceOf(i)].name = evaluations_raw[i].name
    /\ pc \in {"done", "error"} =>
           /\ Len(returned) = 5
           /\ returned[1] = TRUE
           /\ returned[3] = evaluations_processed
           /\ returned[5] = evaluations_raw

\* the first evaluation fails, the second is normalized and returned
C13_Witness ==
    /\ Len(evaluations_raw) = 2
    /\ Normalizable = {2}
    /\ pc \in {"done", "error"}
    /\ returned[1] = TRUE
    /\ Len(returned[3]) = 1
    /\ returned[3][1].name = <<"Eval", 2>>
    /\ returned[3][1].grades = <<"V+">>

\* --------------------------------------------------------------- C14
\* C14: the date_obj of an evaluation dated by a date-time is the date of
\* it, without the time; every date_obj is None or a plain date.
C14_DateTimeTruncated ==
    /\ \A k \in 1..Len(evaluations_processed) :
           evaluations_processed[k].date_obj.kind \in {"None", "date"}
    /\ \A i \in Normalizable :
           evaluations_raw[i].date.kind = "datetime" =>
               evaluations_processed[PlaceOf(i)].date_obj =
                   [kind |-> "date", day |-> evaluations_raw[i].date.day]

\* --------------------------------------------------------------- C15
\* a date that is None, or a text that fromisoformat rejects
BadDate(d) ==
    \/ d.kind = "None"
    \/ d.kind = "str" /\ d.text \notin {"2024-01-05", "2024-01-09T08:30:00"}

\* the record of the same evaluation dated 5 January 2024
WithValidDate(evaluation) ==
    process_evaluation([evaluation EXCEPT !.date = [kind |-> "date", day |-> 5]])

\* the record of raw evaluation i has no date_obj, displays text, and is
\* otherwise the record of the evaluation validly dated
KeptWithDisplay(i, text) ==
    \E k \in 1..Len(evaluations_processed) :
        LET rec == evaluations_processed[k]
            ref == WithValidDate(evaluations_raw[i])
        IN  /\ rec.name = evaluations_raw[i].name
            /\ rec.date_obj = None
            /\ rec.date = [fmt |-> "str", text |-> text]
            /\ rec.subject = ref.subject
            /\ rec.coefficient = ref.coefficient
            /\ rec.grades = ref.grades
            /\ rec.average_points = ref.average_points

\* C15, as claimed: an evaluation whose date is absent or a text that does
\* not parse is normalized with date_obj = None, the display date being
\* the text itself ("Unknown" when the date is absent), and with the
\* subject, coefficient, grades and average_points of a valid date.
C15_BadDateLiteralDisplay ==
    \A i \in Normalizable :
        BadDate(evaluations_raw[i].date) =>
            KeptWithDisplay(i, IF evaluations_raw[i].date.kind = "None"
                               THEN "Unknown" ELSE evaluations_raw[i].date.text)

\* C15, amended: the display date is the text itself, and "Unknown" when
\* the date is absent or is the empty text.
C15_BadDateDisplay ==
    \A i \in Normalizable :
        BadDate(evaluations_raw[i].date) =>
            KeptWithDisplay(i, IF evaluations_raw[i].date.kind = "None"
                                  \/ evaluations_raw[i].date.text = ""
                               THEN "Unknown" ELSE evaluations_raw[i].date.text)

\* "soon" and "" normalized: displayed soon and Unknown, the grades kept
C15_Witness ==
    /\ Len(evaluations_raw) = 2
    /\ evaluations_raw[1].date = [kind |-> "str", text |-> "soon"]
    /\ evaluations_raw[2].date = [kind |-> "str", text |-> ""]
    /\ Len(evaluations_processed) = 2
    /\ evaluations_processed[1].date = [fmt |-> "str", text |-> "soon"]
    /\ evaluations_processed[2].date = [fmt |-> "str", text |-> "Unknown"]
    /\ evaluations_processed[1].date_obj = None
    /\ evaluations_processed[2].grades = <<"V+", "J">>
    /\ evaluations_processed[2].average_points = 3750

\* --------------------------------------------------------------- C19
\* the positions of the acquisitions of raw evaluation i that carry a code
GradedAt(i) ==
    {j \in 1..Len(evaluations_raw[i].acquisitions) :
        evaluations_raw[i].acquisitions[j].abbreviation # ""}

\* the m-th of them
NthGraded(i, m) ==
    CHOOSE j \in GradedAt(i) : Cardinality({h \in GradedAt(i) : h <= j}) = m

DisplayOfCode(code) == IF code \in KnownCodes THEN DisplayOfKnown(code) ELSE code

\* C19: average_points is the mean of the point values of the acquisitions
\* with a non-empty code (an unknown code counts 0 and is in the divisor, an
\* empty one is left out), 0 when there is none; grades holds the display
\* symbols of the same acquisitions in their order.
C19_MeanOfGradedAcquisitions ==
    \A i \in Normalizable :
        \E k \in 1..Len(evaluations_processed) :
            LET rec   == evaluations_processed[k]
                n     == Cardinality(GradedAt(i))
                total == SumOver([j \in GradedAt(i) |->
                                     PointsOfCode(evaluations_raw[i].acquisitions[j].abbreviation)],
                                 GradedAt(i))
            IN  /\ rec.name = evaluations_raw[i].name
                /\ Len(rec.grades) = n
                /\ \A m \in 1..n :
                       rec.grades[m] =
                           DisplayOfCode(evaluations_raw[i].acquisitions[NthGraded(i, m)].abbreviation)
                /\ rec.average_points = IF n = 0 THEN 0 ELSE RoundDiv(100 * total, n)

\* codes Abs and A+ in one evaluation: grades Abs, V+ and mean 25
C19_Witness ==
    /\ Len(evaluations_raw) = 1
    /\ Normalizable = {1}
    /\ Len(evaluations_raw[1].acquisitions) = 2
    /\ evaluations_raw[1].acquisitions[1].abbreviation = "Abs"
    /\ evaluations_raw[1].acquisitions[2].abbreviation = "A+"
    /\ evaluations_processed[1].grades = <<"Abs", "V+">>
    /\ evaluations_processed[1].average_points = 2500

\* --------------------------------------------------------------- C17
\* the requests that have called connect_and_fetch
Connected == {r \in Requests : requests[r].pc \in {"fetched", "responded"}}

\* C17: in every interleaving of two logins, connect_and_fetch connects to
\* the URL that its own request chose, and what a request stores for its
\* session is computed from its own fetch.
C17_RunsIndependent ==
    \A r \in Connected :
        /\ requests[r].pronote_url = requests[r].chosen_url
        /\ (/\ requests[r].pc = "responded"
            /\ requests[r].response \in {"redirect results", "200"}
            /\ \A o \in Connected \ {r} : requests[o].sid # requests[r].sid)
           => STORE[requests[r].sid] =
                  session_entry(requests[r].returned[3], requests[r].returned[5])

\* --------------------------------------------------------------- C18
\* C18: connect_and_fetch returns five items on every path, so that a
\* failed fetch is answered as a connection failure (the flash message of
\* index, the 401 of auto_login) and never by an exception of the handler.
C18_FiveItemsOnEveryPath ==
    \A r \in Connected :
        /\ Len(requests[r].returned) = 5
        /\ (requests[r].pc = "responded" /\ ~requests[r].returned[1])
           => requests[r].response =
                  IF requests[r].handler = "index"
                  THEN "flash Connection failed" ELSE "401"

\* --------------------------------------------------------------- C21
\* the point values of the qualifying acquisitions, in input order
QualifyingPoints ==
    [k \in 1..Cardinality(Qualifying) |->
        LET q == CHOOSE q \in Qualifying : RankOf(q) = k
        IN  PointsOfCode(evaluations_raw[q[1]].acquisitions[q[2]].abbreviation)]

\* the raw collection with every qualifying acquisition moved under domain d
TaggedAs(raw, d) ==
    [i \in 1..Len(raw) |->
        IF raw[i].subject.name # "DNL HG" THEN raw[i]
        ELSE [raw[i] EXCEPT !.acquisitions =
                 [j \in 1..Len(raw[i].acquisitions) |->
                     IF raw[i].acquisitions[j].pillar_prefix # <<>>
                     THEN raw[i].acquisitions[j]
                     ELSE [raw[i].acquisitions[j] EXCEPT !.pillar_prefix = d]]]]

\* C21: when at least one acquisition qualifies for the side channel,
\* dnl_hg_score is the snap of the pooled mean of the qualifying point values
\* (m >= 45 -> 50 / V+, m >= 32.5 -> 40 / V, m >= 17.5 -> 25 / J, else
\* 10 / R), and its count, tier, symbol and raw mean are those that
\* compute_domain_scores reports for a domain holding the same acquisitions;
\* when none qualifies, dnl_hg_score is None.
C21_SideChannelSnapsAsDomains ==
    (pc = "done" /\ evaluations_raw # <<>>) =>
        LET score == stored.brevet_stats.dnl_hg_score
            t     == sum(QualifyingPoints)
            n     == Len(QualifyingPoints)
            is(points, symbol) ==
                /\ score.avg_points_50 = 100 * points
                /\ score.palier = symbol
        IN  IF Qualifying = {} THEN score = None
            ELSE /\ score.kind = "dict"
                 /\ (2 * t >= 90 * n) => is(50, "V+")
                 /\ (2 * t >= 65 * n /\ 2 * t < 90 * n) => is(40, "V")
                 /\ (2 * t >= 35 * n /\ 2 * t < 65 * n) => is(25, "J")
                 /\ (2 * t < 35 * n) => is(10, "R")
                 /\ LET e == compute_domain_scores(
                                 TaggedAs(evaluations_raw, <<"D9">>))[<<"D9">>]
                    IN  /\ score.count = e.count
                        /\ score.avg_points_50 = e.avg_points_50
                        /\ score.avg_points_20 = e.avg_points_20
                        /\ score.palier = e.palier
                        /\ score.raw_avg = e.raw_avg

\* two qualifying acquisitions whose pooled mean is the midpoint 45, snapped
\* to 50 / V+ as a domain holding them is
C21_Witness ==
    /\ pc = "done"
    /\ Cardinality(Qualifying) = 2
    /\ sum(QualifyingPoints) = 90
    /\ stored.brevet_stats.dnl_hg_score.kind = "dict"
    /\ stored.brevet_stats.dnl_hg_score.avg_points_50 = 5000
    /\ stored.brevet_stats.dnl_hg_score.palier = "V+"

\* --------------------------------------------------------------- C22
\* C22: a domain-tag field that is only blanks, or that gives an empty piece
\* once split on commas and trimmed, creates no domain_scores entry with an
\* empty name, and total_400 holds nothing of an empty-named bucket nor of
\* the "EMPTY" bucket.
C22_EmptyTagIsNoDomain ==
    pc = "done" =>
        LET bs == stored.brevet_stats
        IN  /\ <<>> \notin DOMAIN bs.domain_scores
            /\ bs.total_400 =
                   sum_avg_points_50(bs.domain_scores,
                                     (DOMAIN bs.domain_scores) \ {<<>>, <<"EMPTY">>})

\* --------------------------------------------------------------- C23
\* C23: compute_brevet_stats never raises on partial data: whatever
\* evaluation or acquisition lacks, or holds None for, its subject,
\* acquisitions, grade code or domain tag, the statistics are computed; so a
\* login whose sort went through ends with its results stored.
C23_NeverRaisesOnPartialData ==
    (pc \in {"done", "error"} /\ ~sort_raises(evaluations_processed)) =>
        /\ pc = "done"
        /\ "sid1" \in DOMAIN STORE

\* --------------------------------------------------------------- C24
\* the raw evaluations that supply no coefficient
Unweighted == {i \in 1..Len(evaluations_raw) : "coefficient" \notin DOMAIN evaluations_raw[i]}

\* the raw collection with an explicit coefficient of 1 where none is supplied
WithExplicitOne(raw) ==
    [i \in 1..Len(raw) |->
        IF "coefficient" \in DOMAIN raw[i] THEN raw[i]
        ELSE evaluation_of(i, raw[i].subject.name, 1, raw[i].acquisitions)]

\* the weight the claim gives evaluation i
WeightOf(i) == IF i \in Unweighted THEN 1 ELSE evaluations_raw[i].coefficient

C25_SnapFixesTierValues ==
    pc = "done" =>
        \A d \in DOMAIN stored.brevet_stats.domain_scores :
            \A g \in KnownCodes :
                (\A t \in Occurrences(d) : CodeAt(t) = g) =>
                    /\ stored.brevet_stats.domain_scores[d].avg_points_50
                           = 100 * PointsOfKnown(g)
                    /\ stored.brevet_stats.domain_scores[d].palier = DisplayOfKnown(g)

\* three acquisitions under D3, all graded A: 40 / V
C25_Witness ==
    /\ pc = "done"
    /\ ExpectedCount(<<"D3">>) = 3
    /\ \A t \in Occurrences(<<"D3">>) : CodeAt(t) = "A"
    /\ stored.brevet_stats.domain_scores[<<"D3">>].avg_points_50 = 4000
    /\ stored.brevet_stats.domain_scores[<<"D3">>].palier = "V"

\* --------------------------------------------------------------- C26
\* every (evaluation, acquisition) position of the raw collection
AcquisitionPositions ==
    UNION {{<<i, j>> : j \in 1..Len(evaluations_raw[i].acquisitions)} :
           i \in 1..Len(evaluations_raw)}

\* the raw collection with the grade code of the acquisition at q replaced
Regraded(raw, q, code) ==
    [raw EXCEPT ![q[1]].acquisitions[q[2]].abbreviation = code]

\* the codes whose point value is higher than that of the acquisition at q
HigherCodes(q) ==
    {c \in KnownCodes :
        PointsOfCode(c)
            > PointsOfCode(evaluations_raw[q[1]].acquisitions[q[2]].abbreviation)}

\* C26: replacing the grade code of one acquisition by a code with a higher
\* point value, all else unchanged, keeps the domains and never lowers the
\* snapped score of any domain, never lowers total_400 and never lowers the
\* performance tier.
C26_MonotoneInGrades ==
    pc = "done" =>
        \A q \in AcquisitionPositions :
            \A c \in HigherCodes(q) :
                LET lo == stored.brevet_stats
                    hi == compute_brevet_stats(Regraded(evaluations_raw, q, c))
                IN  /\ DOMAIN hi.domain_scores = DOMAIN lo.domain_scores
                    /\ \A d \in DOMAIN lo.domain_scores :
                           hi.domain_scores[d].avg_points_50
                               >= lo.domain_scores[d].avg_points_50
                    /\ hi.total_400 >= lo.total_400
                    /\ TierRank(get_performance_level(hi.total_400))
                           >= TierRank(stored.performance_level)

\* an A under all eight domains (320, Excellent) that A+ takes to 400, Outstanding
C26_Witness ==
    /\ pc = "done"
    /\ stored.brevet_stats.total_400 = 32000
    /\ TierRank(stored.performance_level) = 4
    /\ \E q \in AcquisitionPositions :
           /\ "A+" \in HigherCodes(q)
           /\ LET hi == compute_brevet_stats(Regraded(evaluations_raw, q, "A+"))
              IN  /\ hi.total_400 = 40000
                  /\ TierRank(get_performance_level(hi.total_400)) = 5

\* --------------------------------------------------------------- C27
\* the places, in the order of arrival, of the logins of session sid that
\* were answered with success before the request at place k
LoginsBefore(sid, k) ==
    {j \in 1..(k - 1) :
        /\ requests[Arrival[j]].pc = "responded"
        /\ requests[Arrival[j]].handler \in Handlers
        /\ requests[Arrival[j]].sid = sid
        /\ requests[Arrival[j]].response \in {"redirect results", "200"}}

\* the most recent of them
LastLoginBefore(sid, k) ==
    Arrival[CHOOSE j \in LoginsBefore(sid, k) :
                \A i \in LoginsBefore(sid, k) : i <= j]

\* the entry that the login of request r computed from its own fetch
EntryOf(r) == session_entry(requests[r].returned[3], requests[r].returned[5])

\* the readings that have been answered
Readings ==
    {k \in 1..Len(Arrival) :
        /\ requests[Arrival[k]].pc = "responded"
        /\ requests[Arrival[k]].handler \in Routes}

\* C27: after any sequence of logins of any sessions, /results, /api/data
\* and /results/pdf serve a session what the most recent successful login of
\* the same session id stored, and a session without a successful login gets
\* the no-data answer (redirect to index, 400 from /api/data), never the
\* data of another session.
C27_SessionIsolation ==
    \A k \in Readings :
        LET req == requests[Arrival[k]]
        IN  IF LoginsBefore(req.sid, k) = {}
            THEN /\ req.response = IF req.handler = "api_data" THEN "400"
                                   ELSE "redirect index"
                 /\ req.body = None
            ELSE /\ req.response = "200"
                 /\ req.body = body_of(req.handler,
                                       EntryOf(LastLoginBefore(req.sid, k)))

\* sid1 logs in at one server, sid2 at another, then sid1 reads its own
\* results
C27_Witness ==
    /\ Readings = {3}
    /\ requests["r3"].sid = "sid1"
    /\ requests["r3"].handler = "results"
    /\ LoginsBefore("sid1", 3) = {1}
    /\ LoginsBefore("sid2", 3) = {2}
    /\ EntryOf("r1") # EntryOf("r2")
    /\ requests["r3"].body = body_of("results", EntryOf("r1"))

\* --------------------------------------------------------------- C28
\* request r is a login that gets its answer in this step, and the answer
\* is not that of a success
Rejected(r) ==
    /\ requests[r].pc # "responded"
    /\ requests'[r].pc = "responded"
    /\ requests'[r].handler \in Handlers
    /\ requests'[r].response \notin {"redirect results", "200"}

\* C28: a login through index or auto_login that fails the validation of
\* the form, the validation of the URL or connect_and_fetch creates and
\* modifies no STORE entry: what an earlier successful login of the session
\* stored stays as it was.
C28_RejectedLeavesStore ==
    [][(\E r \in Requests : Rejected(r)) => STORE' = STORE]_vars

\* sid1 has logged in, a second login of sid1 was refused by the server,
\* and sid1 still reads the results of the first login
C28_Witness ==
    /\ LoginsBefore("sid1", 3) = {1}
    /\ requests["r2"].pc = "responded"
    /\ requests["r2"].handler \in Handlers
    /\ requests["r2"].sid = "sid1"
    /\ requests["r2"].response \in {"flash Connection failed", "401"}
    /\ STORE["sid1"] = EntryOf("r1")
    /\ 3 \in Readings
    /\ requests["r3"].sid = "sid1"
    /\ requests["r3"].response = "200"

\* --------------------------------------------------------------- C29
\* how often record e occurs in the list s
TimesIn(e, s) == Cardinality({i \in 1..Len(s) : s[i] = e})

\* C29: after a successful login the stored evaluations are a permutation of
\* the normalized ones, newest first by date_obj, every evaluation without a
\* parsed date after all the dated ones; the sort completes for every mix of
\* date, date-time, string and unparsable inputs; and the subject averages
\* are those of the unsorted list.
C29_SortedNewestFirst ==
    (pc \in {"done", "error"} /\ ~stats_raises(evaluations_raw)) =>
        /\ pc = "done"
        /\ Len(stored.evaluations) = Len(evaluations_processed)
        /\ \A i \in 1..Len(evaluations_processed) :
               TimesIn(evaluations_processed[i], stored.evaluations)
                   = TimesIn(evaluations_processed[i], evaluations_processed)
        /\ \A i, j \in 1..Len(stored.evaluations) :
               i < j =>
                   LET a == stored.evaluations[i].date_obj
                       b == stored.evaluations[j].date_obj
                   IN  IF a.kind = "None" THEN b.kind = "None"
                       ELSE b.kind = "None" \/ a.day >= b.day
        /\ stored.subject_averages = calculate_subject_averages(evaluations_processed)

====
